---- MODULE Spec2Model ----
(***************************************************************************)
(* The IP calculator of swiss-knife (IPCalcTool): the classes Address,     *)
(* IPv4 and IPv6, the function parseIp and the handlers of the React       *)
(* component IPCalcTool.                                                   *)
(*                                                                         *)
(* JavaScript strings are TLA+ strings (Len, SubSeq and \o act on them).   *)
(* A JavaScript BigInt is a two's complement number of NLimbs limbs of 16  *)
(* bits, limb 1 the least significant; the invariant NoOverflow checks     *)
(* that no value of the model needs more limbs than that, so that the      *)
(* arithmetic below is the exact, unbounded arithmetic of BigInt.          *)
(***************************************************************************)
EXTENDS Integers, Sequences, FiniteSets, TLC

\* number of 16-bit limbs of a BigInt of the model
NLimbs == 9

\* 2^16, the weight of one hextet (65536n in IPv6.toInteger)
LimbBase == 65536

Limbs == 1..NLimbs

Min(S) == CHOOSE m \in S : \A n \in S : m <= n

RECURSIVE Pow(_, _)
Pow(b, e) == IF e = 0 THEN 1 ELSE b * Pow(b, e - 1)

----------------------------------------------------------------------------
(* BigInt arithmetic *)

\* the one element of a singleton: Only({e : x \in {d}}) is e with x bound
\* to the value of d, so that d is evaluated once
Only(S) == CHOOSE v \in S : TRUE

\* the limbs f[1], ..., f[NLimbs] as a tuple
Tup(f) == SubSeq(f, 1, NLimbs)

BigZero == Tup([i \in Limbs |-> 0])

BigOne == Tup([i \in Limbs |-> IF i = 1 THEN 1 ELSE 0])

\* 2^e for e in 0..16
Pow2 == [e \in 0..16 |-> Pow(2, e)]

\* x & y on w bits: the high halves and the low halves
RECURSIVE AndBits(_, _, _)
AndBits(x, y, w) ==
  IF x = 0 \/ y = 0 THEN 0
  ELSE IF w = 1 THEN 1
  ELSE Pow2[w \div 2] * AndBits(x \div Pow2[w \div 2], y \div Pow2[w \div 2], w \div 2)
       + AndBits(x % Pow2[w \div 2], y % Pow2[w \div 2], w \div 2)

\* x & y on two limbs
AndLimb(x, y) == AndBits(x, y, 16)

\* x & y
BigAnd(a, b) == Tup([i \in Limbs |-> AndLimb(a[i], b[i])])

\* x | y
BigOr(a, b) == Tup([i \in Limbs |-> a[i] + b[i] - AndLimb(a[i], b[i])])

\* x ^ y
BigXor(a, b) == Tup([i \in Limbs |-> a[i] + b[i] - 2 * AndLimb(a[i], b[i])])

\* ~x
BigNot(a) == Tup([i \in Limbs |-> LimbBase - 1 - a[i]])

\* x + y + cin for cin in 0..1. The carry out of limb i is 1 when some limb
\* j <= i overflows by itself (for j = 0: the carry in is 1) and every limb
\* after j up to i passes a carry on
AddCarry(a, b, cin) ==
  LET c(i) ==
        IF \E j \in 0..i :
             /\ IF j = 0 THEN cin = 1 ELSE a[j] + b[j] >= LimbBase
             /\ \A k \in (j + 1)..i : a[k] + b[k] >= LimbBase - 1
        THEN 1 ELSE 0
  IN  Tup([i \in Limbs |-> (a[i] + b[i] + c(i - 1)) % LimbBase])

\* a + b
BigAdd(a, b) == AddCarry(a, b, 0)

\* a - b
BigSub(a, b) == AddCarry(a, BigNot(b), 1)

\* -a
BigNeg(a) == AddCarry(BigZero, BigNot(a), 1)

\* a < 0n
IsNeg(a) == a[NLimbs] >= LimbBase \div 2

\* x < y
BigLess(a, b) ==
  IF IsNeg(a) # IsNeg(b) THEN IsNeg(a)
  ELSE \E i \in Limbs : a[i] < b[i] /\ \A j \in Limbs : j > i => a[j] = b[j]

\* a <= b
BigLeq(a, b) == ~BigLess(b, a)

\* x * m for a Number m in 0..32767
\* the low halves of the products a[i] * m, plus their high halves one limb up
MulSmall(a, m) ==
  AddCarry(Tup([i \in Limbs |-> (a[i] * m) % LimbBase]),
           Tup([i \in Limbs |-> IF i = 1 THEN 0 ELSE (a[i - 1] * m) \div LimbBase]),
           0)

\* x << k for k >= 0
ShiftLeftNat(a, k) ==
  LET q == k \div 16
      r == k % 16
  IN  Tup([i \in Limbs |->
             (IF i - q >= 1 THEN (a[i - q] * Pow2[r]) % LimbBase ELSE 0)
             + (IF i - q - 1 >= 1 THEN a[i - q - 1] \div Pow2[16 - r] ELSE 0)])

\* x >> k for k >= 0 (arithmetic: the sign fills from the left)
ShiftRightNat(a, k) ==
  LET q == k \div 16
      r == k % 16
      at(i) == IF i <= NLimbs THEN a[i] ELSE IF IsNeg(a) THEN LimbBase - 1 ELSE 0
  IN  Tup([i \in Limbs |->
             at(i + q) \div Pow2[r] + (at(i + q + 1) % Pow2[r]) * Pow2[16 - r]])

\* a << k: a left shift by a negative count is a right shift
BigShl(a, k) == IF k >= 0 THEN ShiftLeftNat(a, k) ELSE ShiftRightNat(a, 0 - k)

\* a >> k
BigShr(a, k) == IF k >= 0 THEN ShiftRightNat(a, k) ELSE ShiftLeftNat(a, 0 - k)

\* x / m and x % m for x >= 0n and a Number m in 1..32767
DivSmall(a, m) ==
  LET r[i \in 1..(NLimbs + 1)] ==
        IF i = NLimbs + 1 THEN 0 ELSE (r[i + 1] * LimbBase + a[i]) % m
  IN  [q |-> Tup([i \in Limbs |-> (r[i + 1] * LimbBase + a[i]) \div m]), r |-> r[1]]

\* BigInt(n) for an integral Number n
BigOfInt(n) ==
  LET m == IF n < 0 THEN 0 - n ELSE n
      p == Tup([i \in Limbs |-> IF i = 1 THEN m % LimbBase
                                ELSE IF i = 2 THEN m \div LimbBase ELSE 0])
  IN  IF n < 0 THEN BigNeg(p) ELSE p

\* Number(a) for a BigInt a in 0..65535
NumberOfBig(a) == a[1]

----------------------------------------------------------------------------
(* JavaScript strings *)

CharAt(s, i) == SubSeq(s, i, i)

\* s.slice(from) with from counted from 1
Rest(s, from) == SubSeq(s, from, Len(s))

\* the first position >= from at which sep occurs in s, 0 when there is none
IndexFrom(s, sep, from) ==
  LET P == {i \in from..(Len(s) - Len(sep) + 1) : SubSeq(s, i, i + Len(sep) - 1) = sep}
  IN  IF P = {} THEN 0 ELSE Min(P)

\* s.includes(sep)
includes(s, sep) == IndexFrom(s, sep, 1) # 0

\* s.split(sep) for a non-empty separator
RECURSIVE split(_, _)
split(s, sep) ==
  LET i == IndexFrom(s, sep, 1)
  IN  IF i = 0 THEN <<s>>
      ELSE <<SubSeq(s, 1, i - 1)>> \o split(Rest(s, i + Len(sep)), sep)

\* parts.join(sep): the left half joined, sep, the right half joined
RECURSIVE join(_, _)
join(parts, sep) ==
  IF Len(parts) = 0 THEN ""
  ELSE IF Len(parts) = 1 THEN parts[1]
  ELSE Only({join(SubSeq(p, 1, Len(p) \div 2), sep) \o sep
             \o join(SubSeq(p, Len(p) \div 2 + 1, Len(p)), sep) : p \in {parts}})

\* the white space of the inputs of the model is the space character
IsSpace(c) == c = " "

RECURSIVE trimStart(_)
trimStart(s) ==
  IF Len(s) > 0 /\ IsSpace(CharAt(s, 1)) THEN trimStart(Rest(s, 2)) ELSE s

RECURSIVE trimEnd(_)
trimEnd(s) ==
  IF Len(s) > 0 /\ IsSpace(CharAt(s, Len(s))) THEN trimEnd(SubSeq(s, 1, Len(s) - 1))
  ELSE s

\* s.trim()
trim(s) == trimEnd(trimStart(s))

\* s.padStart(n, '0') for n up to 128
padStart(s, n) ==
  LET z32 == "00000000000000000000000000000000"
  IN  IF Len(s) >= n THEN s
      ELSE SubSeq(z32 \o z32 \o z32 \o z32, 1, n - Len(s)) \o s

\* s.replace(/^0{1,3}/, ''): at most three leading zeros go
RECURSIVE StripZeros(_, _)
StripZeros(s, n) ==
  IF n > 0 /\ Len(s) > 0 /\ CharAt(s, 1) = "0" THEN StripZeros(Rest(s, 2), n - 1)
  ELSE s

HexLower == "0123456789abcdef"

HexUpper == "0123456789ABCDEF"

\* c is a digit of the radix
IsDigit(c, radix) ==
  \E i \in 1..radix : CharAt(HexLower, i) = c \/ CharAt(HexUpper, i) = c

DigitVal(c) ==
  (CHOOSE i \in 1..16 : CharAt(HexLower, i) = c \/ CharAt(HexUpper, i) = c) - 1

\* the number of leading characters of s that are digits of the radix
RECURSIVE DigitRun(_, _)
DigitRun(s, radix) ==
  IF Len(s) > 0 /\ IsDigit(CharAt(s, 1), radix) THEN 1 + DigitRun(Rest(s, 2), radix)
  ELSE 0

\* the Number written by the digits of s
RECURSIVE DigitsToNumber(_, _)
DigitsToNumber(s, radix) ==
  IF Len(s) = 0 THEN 0
  ELSE DigitsToNumber(SubSeq(s, 1, Len(s) - 1), radix) * radix
       + DigitVal(CharAt(s, Len(s)))

\* the BigInt written by the digits of s
RECURSIVE DigitsToBig(_, _)
DigitsToBig(s, radix) ==
  IF Len(s) = 0 THEN BigZero
  ELSE Only({BigAdd(MulSmall(high, radix), BigOfInt(DigitVal(CharAt(s, Len(s))))) :
               high \in {DigitsToBig(SubSeq(s, 1, Len(s) - 1), radix)}})

\* a Number that is not NaN
Num(n) == [nan |-> FALSE, n |-> n]

NaN == [nan |-> TRUE, n |-> 0]

\* s begins with a minus sign
IsMinus(s) == Len(s) > 0 /\ CharAt(s, 1) = "-"

\* s without its sign
Unsigned(s) == IF Len(s) > 0 /\ CharAt(s, 1) \in {"-", "+"} THEN Rest(s, 2) ELSE s

\* u without the 0x that parseInt skips for the radix 16
Unprefixed(u, radix) ==
  IF radix = 16 /\ Len(u) >= 2 /\ SubSeq(u, 1, 2) \in {"0x", "0X"} THEN Rest(u, 3) ELSE u

\* the Number of the longest run of digits body begins with, NaN if it
\* begins with none
ParseDigits(body, radix, neg) ==
  LET k == DigitRun(body, radix)
      v == DigitsToNumber(SubSeq(body, 1, k), radix)
  IN  IF k = 0 THEN NaN ELSE Num(IF neg THEN 0 - v ELSE v)

\* parseInt(str, radix): white space, a sign, for radix 16 a 0x, then the
\* longest run of digits; what follows the run is ignored
parseInt(str, radix) ==
  Only({ParseDigits(Unprefixed(Unsigned(s), radix), radix, IsMinus(s)) :
          s \in {trimStart(str)}})

\* a BigInt, or the exception that was thrown instead of it
Value(v) == [err |-> "", val |-> v]

Throw(e) == [err |-> e, val |-> BigZero]

\* the radix of the numeral s: 16, 8 or 2 after 0x, 0o or 0b, else 10
NumeralRadix(s) ==
  LET p2 == IF Len(s) >= 2 THEN SubSeq(s, 1, 2) ELSE ""
  IN  IF p2 \in {"0x", "0X"} THEN 16
      ELSE IF p2 \in {"0o", "0O"} THEN 8
      ELSE IF p2 \in {"0b", "0B"} THEN 2 ELSE 10

\* BigInt(string): the trimmed string is empty (0n), a signed decimal
\* numeral, or an unsigned 0x, 0o or 0b numeral; anything else throws
\* a SyntaxError
StringToBigInt(str) ==
  Only({Only({IF Len(s) = 0 THEN Value(BigZero)
              ELSE IF Len(body) = 0 \/ DigitRun(body, rdx) # Len(body)
              THEN Throw("SyntaxError")
              ELSE IF rdx = 10 /\ IsMinus(s) THEN Value(BigNeg(DigitsToBig(body, rdx)))
              ELSE Value(DigitsToBig(body, rdx)) :
                body \in {IF rdx = 10 THEN Unsigned(s) ELSE Rest(s, 3)}}) :
          s \in {trim(str)}, rdx \in {NumeralRadix(trim(str))}})

\* BigInt(number): NaN throws a RangeError
NumberToBigInt(x) == IF x.nan THEN Throw("RangeError") ELSE Value(BigOfInt(x.n))


\* the hexadecimal digits of a limb, four of them
LimbHex(x) ==
  CharAt(HexLower, x \div 4096 + 1) \o CharAt(HexLower, ((x \div 256) % 16) + 1)
  \o CharAt(HexLower, ((x \div 16) % 16) + 1) \o CharAt(HexLower, (x % 16) + 1)

\* the first position of s that holds no "0", the last one when all do
FirstNonZero(s) == Min({i \in 1..Len(s) : i = Len(s) \/ CharAt(s, i) # "0"})

\* s without its leading zeros, the last one kept
StripAllZeros(s) == Only({Rest(d, FirstNonZero(d)) : d \in {s}})

RECURSIVE LimbsHex(_, _)
LimbsHex(a, i) == IF i = 0 THEN "" ELSE LimbHex(a[i]) \o LimbsHex(a, i - 1)

\* a.toString(16): no leading zeros, a minus sign before a negative value
BigToHex(a) ==
  IF IsNeg(a) THEN "-" \o StripAllZeros(LimbsHex(BigNeg(a), NLimbs))
  ELSE StripAllZeros(LimbsHex(a, NLimbs))

\* one turn of the loop
\*   while (int > 0n) { result = alphabet[int % base] + result; int = int / base }
\* on the variables int and result; no turn once int > 0n fails
EncodeTurn(st, alphabet) ==
  IF ~BigLess(BigZero, st.int) THEN st
  ELSE Only({[int |-> d.q, result |-> CharAt(alphabet, d.r + 1) \o st.result] :
               d \in {DivSmall(st.int, Len(alphabet))}})

\* 2^k turns of the loop: 2^(k-1) turns, and 2^(k-1) turns from what they leave
RECURSIVE EncodeTurns(_, _, _)
EncodeTurns(st, alphabet, k) ==
  IF k = 0 \/ ~BigLess(BigZero, st.int) THEN EncodeTurn(st, alphabet)
  ELSE CHOOSE end \in {EncodeTurns(half, alphabet, k - 1) :
                         half \in {EncodeTurns(st, alphabet, k - 1)}} : TRUE

\* a k with which 2^k turns end the loop: a turn takes b bits off int when
\* the alphabet has 2^b characters or more
Doublings(alphabet) ==
  Min({k \in 0..16 :
         \E b \in 1..16 : Pow2[b] <= Len(alphabet) /\ Pow2[k] * b >= 16 * NLimbs})

\* the digits of x in the radix of the alphabet, most significant first: the
\* result of the loop
DigitsOf(x, alphabet) ==
  EncodeTurns([int |-> x, result |-> ""], alphabet, Doublings(alphabet)).result

\* a.toString(): decimal, a minus sign before a negative value
BigToDecimal(a) ==
  IF a = BigZero THEN "0"
  ELSE IF IsNeg(a) THEN "-" \o DigitsOf(BigNeg(a), "0123456789")
  ELSE DigitsOf(a, "0123456789")

\* the binary digits of a limb, sixteen of them
LimbBin(x) ==
  LET nibble == <<"0000", "0001", "0010", "0011", "0100", "0101", "0110", "0111",
                  "1000", "1001", "1010", "1011", "1100", "1101", "1110", "1111">>
  IN  nibble[x \div 4096 + 1] \o nibble[((x \div 256) % 16) + 1]
      \o nibble[((x \div 16) % 16) + 1] \o nibble[(x % 16) + 1]

RECURSIVE LimbsBin(_, _)
LimbsBin(a, i) == IF i = 0 THEN "" ELSE LimbBin(a[i]) \o LimbsBin(a, i - 1)

\* a.toString(2): no leading zeros, a minus sign before a negative value
BigToBinary(a) ==
  IF IsNeg(a) THEN "-" \o StripAllZeros(LimbsBin(BigNeg(a), NLimbs))
  ELSE StripAllZeros(LimbsBin(a, NLimbs))

BASE32_ALPHABET == "ABCDEFGHIJKLMNOPQRSTUVWXYZ234567"

BASE64_ALPHABET == "ABCDEFGHIJKLMNOPQRSTUVWXYZabcdefghijklmnopqrstuvwxyz0123456789+/"

\* the grave accent of the alphabet, which a TLA+ string cannot hold, is
\* written as an apostrophe
BASE85_ALPHABET ==
  "0123456789ABCDEFGHIJKLMNOPQRSTUVWXYZabcdefghijklmnopqrstuvwxyz!#$%&()*+-;<=>?@^_'{|}~"

\* encodeBigIntToBase of utils.js: a negative value gives the empty string
encodeBigIntToBase(bigInt, alphabet) ==
  IF bigInt = BigZero THEN CharAt(alphabet, 1) ELSE DigitsOf(bigInt, alphabet)

\* s.split('').reverse().join(sep)
ReverseJoin(s, sep) ==
  Only({join([i \in 1..Len(d) |-> CharAt(d, Len(d) + 1 - i)], sep) : d \in {s}})

\* s.match(/.{n}/g).join(' '): the whole groups of n characters of s
Groups(s, n) ==
  Only({join([i \in 1..(Len(d) \div n) |-> SubSeq(d, n * (i - 1) + 1, n * i)], " ") :
          d \in {s}})

----------------------------------------------------------------------------
(* class Address and its subclasses IPv4 and IPv6 *)

\* an Address object: its class, this.address and this.prefixLength
Address(family, address, prefixLength) ==
  [family |-> family, address |-> address, prefixLength |-> prefixLength]

totalBits(family) == IF family = "IPv4" THEN 32 ELSE 128

\* prefixToMask is only called with BigInt arguments, for which the first
\* test, prefixLength === 0 (a Number), is false
prefixToMask(prefixLength, tb) ==
  IF prefixLength = tb THEN BigSub(BigShl(BigOne, tb), BigOne)
  ELSE LET shift == tb - prefixLength
       IN  BigXor(BigSub(BigShl(BigOne, tb), BigOne),
                  BigSub(BigShl(BigOne, shift), BigOne))

broadcastAddress(this) ==
  LET tb == totalBits(this.family)
  IN  IF this.prefixLength = tb THEN this
      ELSE Address(this.family,
                   BigOr(this.address,
                         BigAnd(BigNot(prefixToMask(this.prefixLength, tb)),
                                prefixToMask(tb, tb))),
                   this.prefixLength)

\* get networkAddress, were the mask shifted by one bit: the lowest bit of
\* the network part is cleared as well
networkAddressShort(this) ==
  LET mask == prefixToMask(this.prefixLength, totalBits(this.family))
      networkAddr == BigAnd(this.address, BigAnd(mask, ShiftLeftNat(mask, 1)))
  IN  Address(this.family, networkAddr, this.prefixLength)

networkAddress(this) ==
  LET mask == prefixToMask(this.prefixLength, totalBits(this.family))
      networkAddr == BigAnd(this.address, mask)
  IN  Address(this.family, networkAddr, this.prefixLength)

\* get firstAddress, were the network address itself returned
firstAddressAtNetwork(this) ==
  IF this.prefixLength = totalBits(this.family) THEN this
  ELSE Address(this.family, networkAddress(this).address, this.prefixLength)

firstAddress(this) ==
  IF this.prefixLength = totalBits(this.family) THEN this
  ELSE Address(this.family, BigAdd(networkAddress(this).address, BigOne),
               this.prefixLength)

lastAddress(this) ==
  IF this.prefixLength = totalBits(this.family) THEN this
  ELSE Address(this.family, BigSub(broadcastAddress(this).address, BigOne),
               this.prefixLength)

\* get length, were the shift done on 32-bit Numbers (1 << n), whose shift
\* count is taken modulo 32
lengthInt32(this) ==
  BigShl(BigOne, (totalBits(this.family) - this.prefixLength) % 32)

\* get length
length(this) == BigShl(BigOne, totalBits(this.family) - this.prefixLength)

\* the reduce of IPv4.toInteger and IPv4.toBigInt over the octets
\* from the accumulator int over the octets lo..hi: over the first half of
\* them, and over the second half from what that leaves; an octet that
\* throws ends it
RECURSIVE ReduceOctets(_, _, _, _)
ReduceOctets(int, octets, lo, hi) ==
  IF int.err # "" \/ lo > hi THEN int
  ELSE IF lo = hi
  THEN Only({IF octet.err # "" THEN octet
             ELSE Value(BigAdd(MulSmall(int.val, 256), octet.val)) :
               octet \in {StringToBigInt(octets[lo])}})
  ELSE CHOOSE end \in {ReduceOctets(half, octets, (lo + hi) \div 2 + 1, hi) :
                         half \in {ReduceOctets(int, octets, lo, (lo + hi) \div 2)}} : TRUE

IPv4toInteger(ip) ==
  Only({ReduceOctets(Value(BigZero), octets, 1, Len(octets)) : octets \in {split(ip, ".")}})

\* the static IPv4.toBigInt
IPv4toBigInt(ip) ==
  Only({ReduceOctets(Value(BigZero), octets, 1, Len(octets)) : octets \in {split(ip, ".")}})

\* Array.map((part) => part || '0')
OrZero(parts) == [i \in 1..Len(parts) |-> IF parts[i] = "" THEN "0" ELSE parts[i]]

\* IPv6.expand: the parts after a second '::' are ignored; Array(n) throws
\* a RangeError for a negative n
expand(ip) ==
  Only({Only({LET n == 8 - Len(head) - Len(tail)
                  middle == [i \in 1..n |-> "0"]
              IN  IF n < 0 THEN [err |-> "RangeError", str |-> ""]
                  ELSE [err |-> "", str |-> join(head \o middle \o tail, ":")] :
                head \in {OrZero(split(parts[1], ":"))},
                tail \in {IF Len(parts) >= 2 /\ parts[2] # ""
                          THEN OrZero(split(parts[2], ":")) ELSE << >>}}) :
          parts \in {split(ip, "::")}})

\* the reduce of IPv6.toInteger and IPv6.toBigInt over the hextets
\* from the accumulator int over the hextets lo..hi, in two halves as well
RECURSIVE ReduceHextets(_, _, _, _)
ReduceHextets(int, hextets, lo, hi) ==
  IF int.err # "" \/ lo > hi THEN int
  ELSE IF lo = hi
  THEN Only({IF hextet.err # "" THEN hextet
             ELSE Value(BigAdd(ShiftLeftNat(int.val, 16), hextet.val)) :
               hextet \in {NumberToBigInt(parseInt(hextets[lo], 16))}})
  ELSE CHOOSE end \in {ReduceHextets(half, hextets, (lo + hi) \div 2 + 1, hi) :
                         half \in {ReduceHextets(int, hextets, lo, (lo + hi) \div 2)}} : TRUE

\* the hextets of the expanded form, when expand has not thrown
SplitExpanded(e) == [err |-> e.err, hextets |-> split(e.str, ":")]

IPv6toInteger(ip) ==
  Only({IF e.err # "" THEN Throw(e.err)
        ELSE ReduceHextets(Value(BigZero), e.hextets, 1, Len(e.hextets)) :
          e \in {SplitExpanded(expand(ip))}})

\* the static IPv6.toBigInt, with its own copy of expand
IPv6toBigInt(ip) ==
  Only({IF e.err # "" THEN Throw(e.err)
        ELSE ReduceHextets(Value(BigZero), e.hextets, 1, Len(e.hextets)) :
          e \in {SplitExpanded(expand(ip))}})

\* Number((this.address >> k) & 255n)
Octet(a, k) == NumberOfBig(BigAnd(BigShr(a, k), BigOfInt(255)))

RECURSIVE NumberToString(_)
NumberToString(n) ==
  IF n < 10 THEN CharAt(HexLower, n + 1)
  ELSE NumberToString(n \div 10) \o CharAt(HexLower, (n % 10) + 1)

\* a prefix length in a template string
PrefixToString(n) == IF n < 0 THEN "-" \o NumberToString(0 - n) ELSE NumberToString(n)

\* IPv4.toString, were the octets written lowest first
IPv4toStringReversed(this) ==
  join(<<NumberToString(Octet(this.address, 0)), NumberToString(Octet(this.address, 8)),
         NumberToString(Octet(this.address, 16)), NumberToString(Octet(this.address, 24))>>,
       ".")

IPv4toString(this) ==
  join(<<NumberToString(Octet(this.address, 24)), NumberToString(Octet(this.address, 16)),
         NumberToString(Octet(this.address, 8)), NumberToString(Octet(this.address, 0))>>,
       ".")

\* the hextets of IPv6.toString: the first 32 characters of the padded
\* hexadecimal form, in fours, each without its leading zeros
IPv6toString(this) ==
  LET hexString == padStart(BigToHex(this.address), 32)
      hextet(i) == LET h == StripZeros(SubSeq(hexString, 4 * i - 3, 4 * i), 3)
                   IN  IF h = "" THEN "0" ELSE h
  IN  join([i \in 1..8 |-> hextet(i)], ":")

toString(this) == IF this.family = "IPv4" THEN IPv4toString(this) ELSE IPv6toString(this)

\* the first index of each group of consecutive '0' parts that the loop of
\* compact pushes to zeroGroups
zeroGroups(parts) ==
  {i \in 1..Len(parts) : parts[i] = "0" /\ (i = 1 \/ parts[i - 1] # "0")}

\* the length of the group that starts at i
GroupLength(parts, i) ==
  Min({n \in 1..Len(parts) : i + n > Len(parts) \/ parts[i + n] # "0"})

\* the reduce over zeroGroups: a group replaces the longest so far only
\* when it is longer, so the first of the longest groups stays; [] when
\* there is no group
longestGroup(parts) ==
  LET groups == zeroGroups(parts)
      first == Min({i \in groups :
                      \A j \in groups : GroupLength(parts, j) <= GroupLength(parts, i)})
  IN  IF groups = {} THEN [start |-> 0, length |-> 0]
      ELSE [start |-> first, length |-> GroupLength(parts, first)]

\* parts.splice(start, deleteCount, '')
splice(parts, start, deleteCount) ==
  SubSeq(parts, 1, start - 1) \o <<"">> \o SubSeq(parts, start + deleteCount, Len(parts))

\* s.replace(/:{2,}/, '::'): the first run of two or more colons
ReplaceColons(s) ==
  LET i == IndexFrom(s, "::", 1)
      after == Min({k \in i..(Len(s) + 1) : k > Len(s) \/ CharAt(s, k) # ":"})
  IN  IF i = 0 THEN s ELSE SubSeq(s, 1, i - 1) \o "::" \o Rest(s, after)

\* IPv6.compact
compact(this) ==
  Only({Only({Only({IF Len(compactedIp) > 0 /\ CharAt(compactedIp, Len(compactedIp)) = ":"
                    THEN compactedIp \o ":" ELSE compactedIp :
                      compactedIp \in
                        {ReplaceColons(join([i \in 1..Len(spliced) |->
                                               StripZeros(spliced[i], 3)], ":"))}}) :
                spliced \in {IF longest.length > 0
                             THEN splice(parts, longest.start, longest.length)
                             ELSE parts}}) :
          parts \in {split(IPv6toString(this), ":")},
          longest \in {longestGroup(split(IPv6toString(this), ":"))}})


\* get hexId
hexId(this) == "0x" \o padStart(BigToHex(this.address), totalBits(this.family) \div 4)

\* Array.prototype.reverse
reverse(parts) == [i \in 1..Len(parts) |-> parts[Len(parts) + 1 - i]]

\* get arpaFormat of IPv4 (from the text of toString) and of IPv6
arpaFormat(this) ==
  IF this.family = "IPv4"
  THEN join(reverse(split(IPv4toString(this), ".")), ".") \o ".in-addr.arpa"
  ELSE ReverseJoin(padStart(BigToHex(this.address), 32), ".") \o ".ip6.arpa"

\* toBinary of IPv4 (bytes) and of IPv6 (16-bit groups)
toBinary(this) ==
  Groups(padStart(BigToBinary(this.address), totalBits(this.family)),
         IF this.family = "IPv4" THEN 8 ELSE 16)

\* IPv4.TYPE_LIST before its map, were the Global Unicast row declared
\* first
IPv4RowsWidestFirst ==
  << <<"Global Unicast", "0.0.0.0", "223.255.255.255">>,
     <<"Private", "10.0.0.0", "10.255.255.255">>,
     <<"Private", "172.16.0.0", "172.31.255.255">>,
     <<"Private", "192.168.0.0", "192.168.255.255">>,
     <<"Loopback", "127.0.0.0", "127.255.255.255">>,
     <<"Link-local", "169.254.0.0", "169.254.255.255">>,
     <<"Multicast", "224.0.0.0", "239.255.255.255">>,
     <<"Broadcast", "255.255.255.255", "255.255.255.255">>,
     <<"Shared Address Space", "100.64.0.0", "100.127.255.255">> >>

\* IPv4.TYPE_LIST before its map
IPv4Rows ==
  << <<"Private", "10.0.0.0", "10.255.255.255">>,
     <<"Private", "172.16.0.0", "172.31.255.255">>,
     <<"Private", "192.168.0.0", "192.168.255.255">>,
     <<"Loopback", "127.0.0.0", "127.255.255.255">>,
     <<"Link-local", "169.254.0.0", "169.254.255.255">>,
     <<"Multicast", "224.0.0.0", "239.255.255.255">>,
     <<"Broadcast", "255.255.255.255", "255.255.255.255">>,
     <<"Shared Address Space", "100.64.0.0", "100.127.255.255">>,
     <<"Global Unicast", "0.0.0.0", "223.255.255.255">> >>

IPv4_TYPE_LIST ==
  [i \in 1..Len(IPv4Rows) |->
     Only({<<IPv4Rows[i][1], b[2], b[3]>> :
             b \in {[k \in 2..3 |-> IPv4toBigInt(IPv4Rows[i][k]).val]}})]

\* IPv6.TYPE_LIST before its map
IPv6Rows ==
  << <<"NAT64", "64:ff9b::", "64:ff9b::ffff:ffff">>,
     <<"Global Unicast", "2000::", "3fff:ffff:ffff:ffff:ffff:ffff:ffff:ffff">>,
     <<"Link-local", "fe80::", "febf:ffff:ffff:ffff:ffff:ffff:ffff:ffff">>,
     <<"Unique Local", "fc00::", "fdff:ffff:ffff:ffff:ffff:ffff:ffff:ffff">>,
     <<"Multicast", "ff00::", "ffff:ffff:ffff:ffff:ffff:ffff:ffff:ffff">>,
     <<"Loopback", "::1", "::1">>,
     <<"Reserved", "::", "::">>,
     <<"Reserved", "::ffff:0:0", "::ffff:ffff:ffff">>,
     <<"Reserved", "4000::", "ffff:ffff:ffff:ffff:ffff:ffff:ffff:ffff">> >>

IPv6_TYPE_LIST ==
  [i \in 1..Len(IPv6Rows) |->
     Only({<<IPv6Rows[i][1], b[2], b[3]>> :
             b \in {[k \in 2..3 |-> IPv6toBigInt(IPv6Rows[i][k]).val]}})]

\* the label of the first row [type, start, end] of the list with
\* start <= lo and hi <= end
FirstRow(list, lo, hi) ==
  LET M == {i \in 1..Len(list) : BigLeq(list[i][2], lo) /\ BigLeq(hi, list[i][3])}
  IN  IF M = {} THEN "Unknown" ELSE list[Min(M)][1]

\* Address.type, which IPv4 inherits: the rows are tried on this.address
IPv4type(this) ==
  Only({FirstRow(list, a, a) : list \in {IPv4_TYPE_LIST}, a \in {this.address}})

\* IPv6.type: the rows are tried on the network and the broadcast address
IPv6type(this) ==
  Only({FirstRow(list, network, broadcast) :
          list \in {IPv6_TYPE_LIST},
          network \in {networkAddress(this).address},
          broadcast \in {broadcastAddress(this).address}})

type(this) == IF this.family = "IPv4" THEN IPv4type(this) ELSE IPv6type(this)

\* the module-level default: new IPv6('64:ff9b::', 96)
nat64Prefix == Address("IPv6", IPv6toInteger("64:ff9b::").val, 96)

\* the object IPv4.nat64 builds: new IPv6(prefixObj.address + this.address,
\* prefixObj.prefixLength); calculate always passes a prefix object
IPv4nat64Object(this, prefix) ==
  Address("IPv6", BigAdd(prefix.address, this.address), prefix.prefixLength)

\* IPv4.nat64(prefix): the template string it returns
IPv4nat64(this, prefix) ==
  LET nat64 == IPv4nat64Object(this, prefix)
  IN  IPv6toString(nat64) \o "/" \o PrefixToString(nat64.prefixLength)

\* the object IPv6.nat64 would build, were the prefix address not
\* subtracted: new IPv4(this.address, 32)
IPv6nat64ObjectWhole(this, prefix) ==
  Address("IPv4", this.address, 32)

\* the object IPv6.nat64 builds when the address lies in the prefix:
\* new IPv4(ipv4Address, 32)
IPv6nat64Object(this, prefix) ==
  Address("IPv4", BigSub(this.address, prefix.address), 32)

\* IPv6.nat64(prefix), were the two ends of the prefix's range left out
\* (<= and >= in the test)
IPv6nat64Exclusive(this, prefix) ==
  IF BigLeq(this.address, prefix.address)
     \/ BigLeq(broadcastAddress(prefix).address, this.address)
  THEN "Not applicable"
  ELSE IPv4toString(IPv6nat64Object(this, prefix))

\* IPv6.nat64(prefix)
IPv6nat64(this, prefix) ==
  IF BigLess(this.address, prefix.address)
     \/ BigLess(broadcastAddress(prefix).address, this.address)
  THEN "Not applicable"
  ELSE IPv4toString(IPv6nat64Object(this, prefix))

nat64(this, prefix) ==
  IF this.family = "IPv4" THEN IPv4nat64(this, prefix) ELSE IPv6nat64(this, prefix)

\* what parseIp gives: an Address, or the exception it threw
Parsed(obj) == [err |-> "", obj |-> obj]

Failed(e) == [err |-> e, obj |-> Address("", BigZero, 0)]

\* new IPv4(ip, prefixLength) and new IPv6(ip, prefixLength) for a string
\* ip: toInteger first, BigInt(prefixLength) after it
Construct(family, ip, prefixLength) ==
  Only({IF a.err # "" THEN Failed(a.err)
        ELSE IF p.err # "" THEN Failed(p.err)
        ELSE Parsed(Address(family, a.val, prefixLength.n)) :
          a \in {IF family = "IPv4" THEN IPv4toInteger(ip) ELSE IPv6toInteger(ip)},
          p \in {NumberToBigInt(prefixLength)}})

\* parseIp, were its last branch to build an IPv4 address as well
parseIpTwoWay(str) ==
  Only({Only({IF includes(ip, ":") THEN Construct("IPv6", ip, prefixLength)
              ELSE Construct("IPv4", ip, prefixLength) :
                prefixLength \in
                  {IF Len(parts) < 2 \/ parts[2] = ""
                   THEN Num(IF includes(ip, ":") THEN 64 ELSE 24)
                   ELSE parseInt(parts[2], 10)}}) :
          parts \in {split(str, "/")}, ip \in {split(str, "/")[1]}})

\* parseIp, were the prefix length tested for falsiness after parseInt:
\* a prefix length of 0 gets the default
parseIpZeroDefault(str) ==
  Only({Only({IF includes(ip, ":") THEN Construct("IPv6", ip, prefixLength)
              ELSE IF includes(ip, ".") THEN Construct("IPv4", ip, prefixLength)
              ELSE Failed("Invalid IP address format") :
                prefixLength \in
                  {IF Len(parts) < 2 \/ parts[2] = "" \/ parseInt(parts[2], 10) = Num(0)
                   THEN Num(IF includes(ip, ":") THEN 64 ELSE 24)
                   ELSE parseInt(parts[2], 10)}}) :
          parts \in {split(str, "/")}, ip \in {split(str, "/")[1]}})

parseIp(str) ==
  Only({Only({IF includes(ip, ":") THEN Construct("IPv6", ip, prefixLength)
              ELSE IF includes(ip, ".") THEN Construct("IPv4", ip, prefixLength)
              ELSE Failed("Invalid IP address format") :
                prefixLength \in
                  {IF Len(parts) < 2 \/ parts[2] = ""
                   THEN Num(IF includes(ip, ":") THEN 64 ELSE 24)
                   ELSE parseInt(parts[2], 10)}}) :
          parts \in {split(str, "/")}, ip \in {split(str, "/")[1]}})


----------------------------------------------------------------------------
(* the component IPCalcTool *)

VARIABLES input, nat64PrefixInput, result, error, checkIp, checkResult, timer

vars == <<input, nat64PrefixInput, result, error, checkIp, checkResult, timer>>

\* null: no result, no pending timeout
Null == [null |-> TRUE]

\* the closure of calculate the debounce timeout holds: the state of the
\* render in which the effect on [input] ran
Closure(in, pfx) == [input |-> in, nat64PrefixInput |-> pfx]

\* the object calculate passes to setResult (the coloured splits of the
\* strings, getColoredIP, are left to the view); the getters are pure, and
\* each of their strings is computed once here
Report(ipObj, nat64PrefixObj) ==
  Only({[address |-> toString(ipObj) \o p,
         type |-> type(ipObj),
         network |-> network \o p,
         broadcast |-> broadcast \o p,
         networkRange |-> network \o " - " \o broadcast,
         hostRange |-> first \o " - " \o last,
         totalIPs |-> BigToDecimal(length(ipObj)),
         intId |-> BigToDecimal(ipObj.address),
         hexId |-> hexId(ipObj),
         base32Id |-> encodeBigIntToBase(ipObj.address, BASE32_ALPHABET),
         base64Id |-> encodeBigIntToBase(ipObj.address, BASE64_ALPHABET),
         base85Id |-> encodeBigIntToBase(ipObj.address, BASE85_ALPHABET),
         arpa |-> arpaFormat(ipObj),
         nat64 |-> nat64(ipObj, nat64PrefixObj),
         binary |-> toBinary(ipObj),
         ipObj |-> ipObj] :
          p \in {"/" \o PrefixToString(ipObj.prefixLength)},
          network \in {toString(networkAddress(ipObj))},
          broadcast \in {toString(broadcastAddress(ipObj))},
          first \in {toString(firstAddress(ipObj))},
          last \in {toString(lastAddress(ipObj))}})

\* the rows of the result table that show the address integer in another
\* notation, each with the radix its getter writes in: toBinary, and the
\* rows under "Other Encodings"
Encodings(res) ==
  << [label |-> "Binary", value |-> res.binary, radix |-> 2],
     [label |-> "Integer ID", value |-> res.intId, radix |-> 10],
     [label |-> "Hexadecimal ID", value |-> res.hexId, radix |-> 16],
     [label |-> "Base 32 ID", value |-> res.base32Id, radix |-> Len(BASE32_ALPHABET)],
     [label |-> "Base 64 ID", value |-> res.base64Id, radix |-> Len(BASE64_ALPHABET)],
     [label |-> "Base 85 ID", value |-> res.base85Id, radix |-> Len(BASE85_ALPHABET)] >>

\* the inner try of calculate: the NAT64 prefix field parsed, or the default
\* prefix when parseIp throws
nat64PrefixObjOf(field) ==
  Only({IF pfx.err # "" THEN Address("IPv6", IPv6toInteger("64:ff9b::").val, 96)
        ELSE pfx.obj :
          pfx \in {parseIp(trim(field))}})

\* calculate, run with the input and the NAT64 prefix of its closure
calculate(c) ==
  Only({IF parsed.err # "" THEN [result |-> Null, error |-> parsed.err]
        ELSE [result |-> Report(parsed.obj, nat64PrefixObj), error |-> ""] :
          parsed \in {parseIp(trim(c.input))},
          nat64PrefixObj \in {nat64PrefixObjOf(c.nat64PrefixInput)}})

\* the debounce timeout fires
Calculate ==
  /\ timer # Null
  /\ \E r \in {calculate(timer)} : result' = r.result /\ error' = r.error
  /\ timer' = Null
  /\ UNCHANGED <<input, nat64PrefixInput, checkIp, checkResult>>

\* handleCheckIp, were the two ends of the subnet left out (< and > in isIn)
handleCheckIpStrict ==
  /\ checkResult' =
       IF trim(checkIp) = "" \/ result = Null THEN ""
       ELSE Only({IF testIpObj.err # "" THEN testIpObj.err
                  ELSE IF result.ipObj.family # testIpObj.obj.family
                  THEN "IP version mismatch"
                  ELSE IF BigLess(networkAddress(result.ipObj).address,
                                  testIpObj.obj.address)
                          /\ BigLess(testIpObj.obj.address,
                                     broadcastAddress(result.ipObj).address)
                  THEN "is in the subnet"
                  ELSE "is not in the subnet" :
                    testIpObj \in {parseIp(trim(checkIp))}})
  /\ UNCHANGED <<input, nat64PrefixInput, result, error, checkIp, timer>>

\* handleCheckIp, were the constructors of the two objects not compared
handleCheckIpUnified ==
  /\ checkResult' =
       IF trim(checkIp) = "" \/ result = Null THEN ""
       ELSE Only({IF testIpObj.err # "" THEN testIpObj.err
                  ELSE IF BigLeq(networkAddress(result.ipObj).address,
                                 testIpObj.obj.address)
                          /\ BigLeq(testIpObj.obj.address,
                                    broadcastAddress(result.ipObj).address)
                  THEN "is in the subnet"
                  ELSE "is not in the subnet" :
                    testIpObj \in {parseIp(trim(checkIp))}})
  /\ UNCHANGED <<input, nat64PrefixInput, result, error, checkIp, timer>>

\* handleCheckIp, were the candidate compared with the first and the last
\* usable address
handleCheckIpUsable ==
  /\ checkResult' =
       IF trim(checkIp) = "" \/ result = Null THEN ""
       ELSE Only({IF testIpObj.err # "" THEN testIpObj.err
                  ELSE IF result.ipObj.family # testIpObj.obj.family
                  THEN "IP version mismatch"
                  ELSE IF BigLeq(firstAddress(result.ipObj).address,
                                 testIpObj.obj.address)
                          /\ BigLeq(testIpObj.obj.address,
                                    lastAddress(result.ipObj).address)
                  THEN "is in the subnet"
                  ELSE "is not in the subnet" :
                    testIpObj \in {parseIp(trim(checkIp))}})
  /\ UNCHANGED <<input, nat64PrefixInput, result, error, checkIp, timer>>

handleCheckIp ==
  /\ checkResult' =
       IF trim(checkIp) = "" \/ result = Null THEN ""
       ELSE Only({IF testIpObj.err # "" THEN testIpObj.err
                  ELSE IF result.ipObj.family # testIpObj.obj.family
                  THEN "IP version mismatch"
                  ELSE IF BigLeq(networkAddress(result.ipObj).address,
                                 testIpObj.obj.address)
                          /\ BigLeq(testIpObj.obj.address,
                                    broadcastAddress(result.ipObj).address)
                  THEN "is in the subnet"
                  ELSE "is not in the subnet" :
                    testIpObj \in {parseIp(trim(checkIp))}})
  /\ UNCHANGED <<input, nat64PrefixInput, result, error, checkIp, timer>>

----------------------------------------------------------------------------
(* the inputs of the model *)

\* the prefix lengths written after the '/' run from 0 to this number, one
\* more than the 32 bits of IPv4
MaxPrefix4 == 33

\* the same for IPv6, one more than its 128 bits
MaxPrefix6 == 129

IPv4Literals ==
  {"0.0.0.0", "0.0.0.1", "10.0.0.1", "10.5.5.5", "10.255.255.255", "11.0.0.0",
   "100.64.0.1", "127.0.0.1", "128.0.0.0", "169.254.1.1", "172.16.0.1",
   "172.32.0.1", "192.0.2.1", "192.168.1.0", "192.168.1.10", "203.0.113.5",
   "223.255.255.255", "224.0.0.1", "239.255.255.255", "240.0.0.1",
   "255.255.255.254", "255.255.255.255",
   "256.1.1.1", "1.2.3", "1.2.3.4.5", "1..2.3", "-1.0.0.0", "1.2.3.x",
   "0x10.0.0.1", " 10.0.0.1 "}

IPv6Literals ==
  {"::", "::1", "::2", "::ffff:0:0", "::ffff:c000:201", "64:ff9b::",
   "64:ff9b::c000:201", "64:ff9b::ffff:ffff", "64:ff9b:0:0:0:1::",
   "2001:db8::1", "2001:db8:0:1::1", "2001:0db8:0:0:1:0:0:1", "2000::",
   "3fff:ffff:ffff:ffff:ffff:ffff:ffff:ffff", "4000::", "8000::", "fc00::1",
   "fd12:3456:789a:1::1", "fe80::1", "febf::1", "fec0::1", "ff02::1",
   "ffff:ffff:ffff:ffff:ffff:ffff:ffff:ffff", "1:2:3:4:5:6:7:8",
   "1::2::3", "12345::1", "1g::2", "g::1", "1:2", "1:2:3:4:5:6:7:8:9",
   "-1::", "::ffff:1.2.3.4"}

\* what follows the literal: nothing, or a '/' and a prefix length
Suffixes(lengths) ==
  {"", "/", "/-1", "/abc", "/24abc"} \cup {"/" \o NumberToString(n) : n \in lengths}

\* the literals that are tried with every prefix length
IPv4Swept == {"0.0.0.0", "192.168.1.10", "203.0.113.5", "255.255.255.255", "256.1.1.1"}

IPv6Swept ==
  {"::", "2001:db8::1", "64:ff9b::c000:201", "fe80::1",
   "ffff:ffff:ffff:ffff:ffff:ffff:ffff:ffff", "12345::1"}

Inputs ==
  {"", " ", "/", "localhost", "localhost/abc", "12345/24", "/24", "10.0.0.1/8/16",
   "fe80::1/10/64"}
  \cup {ip \o sfx : ip \in IPv4Literals,
                    sfx \in Suffixes({0, 1, 8, 10, 12, 16, 24, 31, 32, MaxPrefix4})}
  \cup {ip \o sfx : ip \in IPv4Swept, sfx \in Suffixes(0..MaxPrefix4)}
  \cup {ip \o sfx : ip \in IPv6Literals,
                    sfx \in Suffixes({0, 1, 3, 7, 8, 10, 64, 96, 127, 128, MaxPrefix6})}
  \cup {ip \o sfx : ip \in IPv6Swept, sfx \in Suffixes(0..MaxPrefix6)}

\* the contents of the NAT64 prefix field
Nat64PrefixInputs ==
  {"64:ff9b::/96", "64:ff9b:1::/96", "64:ff9b::/64", "2001:db8::1/96",
   "ffff:ffff:ffff:ffff:ffff:ffff:ffff:ffff/128", "10.0.0.0/8", "nonsense", ""}

\* the addresses translated under every one of these prefixes
Nat64Inputs ==
  {"192.0.2.1/32", "0.0.0.0/32", "255.255.255.255/32", "64:ff9b::c000:201",
   "64:ff9b::1:0:0:1/128",
   "64:ff9b:1::a00:1/128", "2001:db8::1/64", "::1/128"}

\* the addresses looked up in the subnet of the result
CheckIps ==
  {"10.5.5.5", "10.5.5.5/32", "10.5.5.5/0", "11.0.0.0/32", "11.0.0.0/0", "10.0.0.0/8",
   "10.255.255.255/8", "9.255.255.255", "10.5.5.5/abc", "::1", "fe80::2", "fe80::2/0",
   "fe80::ffff:ffff:ffff:ffff/128", "fe80:0:0:1::/64", "x", " ",
   "10.0.0.1", "10.255.255.254", "10.15.255.255", "10.16.0.0", "192.168.1.9",
   "192.168.1.10", "192.168.1.11", "192.168.1.12", "256.1.1.1", "fe80::", "fe80::1",
   "fe80::ffff:ffff:ffff:fffe", "fe7f:ffff:ffff:ffff:ffff:ffff:ffff:ffff"}

CheckInputs ==
  {"10.0.0.0/8", "10.5.5.5/32", "10.5.5.5/12", "10.0.0.1/33", "192.168.1.10/31",
   "fe80::1/64", "::/0", "nonsense"}

----------------------------------------------------------------------------
(* the calculator applied to every input: one calculation per behaviour *)

\* the component as mounted with the given field contents: the effect on
\* [input] has armed the debounce timeout
Init ==
  /\ \/ input \in Inputs /\ nat64PrefixInput = "64:ff9b::/96" /\ checkIp = ""
     \/ input \in Nat64Inputs /\ nat64PrefixInput \in Nat64PrefixInputs /\ checkIp = ""
     \/ input \in CheckInputs /\ nat64PrefixInput = "64:ff9b::/96" /\ checkIp \in CheckIps
  /\ result = Null
  /\ error = ""
  /\ checkResult = ""
  /\ timer = Closure(input, nat64PrefixInput)

Next == Calculate \/ handleCheckIp

Spec == Init /\ [][Next]_vars

----------------------------------------------------------------------------
(* the fields edited while the component is mounted *)

\* what is typed into the address field
EditedInputs == {"192.0.2.1/32", "10.0.0.1", "64:ff9b::c000:201", "nonsense"}

\* what is typed into the NAT64 prefix field
EditedPrefixes == {"64:ff9b::/96", "64:ff9b:1::/96", "2001:db8::/96", "nonsense"}

\* onChange of the address field: the render with the new input runs the
\* effect on [input], which clears the pending timeout and arms one with the
\* calculate of that render
setInput(value) ==
  /\ value # input
  /\ input' = value
  /\ timer' = Closure(value, nat64PrefixInput)
  /\ UNCHANGED <<nat64PrefixInput, result, error, checkIp, checkResult>>

\* onChange of the NAT64 prefix field: nat64PrefixInput is no dependency of
\* the effect, so no timeout is armed, and a pending one keeps the calculate
\* of the render it was armed in
setNat64PrefixInput(value) ==
  /\ value # nat64PrefixInput
  /\ nat64PrefixInput' = value
  /\ UNCHANGED <<input, result, error, checkIp, checkResult, timer>>

EditInit ==
  /\ input \in EditedInputs
  /\ nat64PrefixInput = "64:ff9b::/96"
  /\ checkIp = ""
  /\ result = Null
  /\ error = ""
  /\ checkResult = ""
  /\ timer = Closure(input, nat64PrefixInput)

EditNext ==
  \/ Calculate
  \/ \E value \in EditedInputs : setInput(value)
  \/ \E value \in EditedPrefixes : setNat64PrefixInput(value)

\* the timeout armed by setTimeout(calculate, 300) expires; of the steps of
\* EditNext these are the steps of Calculate
Expire == timer # Null /\ timer' = Null

\* an armed timeout expires unless it is cleared and armed again for ever
EditSpec == EditInit /\ [][EditNext]_vars /\ WF_timer(Expire)

----------------------------------------------------------------------------
(* properties of the calculator *)

\* the calculation of the mounted input has run
Calculated == timer = Null

\* the calculation has run and has produced a report
HasResult == Calculated /\ result # Null

Max(S) == CHOOSE m \in S : \A n \in S : n <= m

\* the limbs above the first n are zero: 0 <= a < 2^(16 n)
FitsLimbs(a, n) == \A i \in Limbs : i > n => a[i] = 0

\* the two leading bits of the top limb agree: the value lies well inside
\* the range of NLimbs limbs, and nothing was cut off in computing it
Exact(a) == a[NLimbs] < LimbBase \div 4 \/ a[NLimbs] >= LimbBase - LimbBase \div 4

\* the BigInt arithmetic of the model is exact on every value of a report
NoOverflow ==
  HasResult =>
    /\ Exact(result.ipObj.address)
    /\ Exact(networkAddress(result.ipObj).address)
    /\ Exact(broadcastAddress(result.ipObj).address)
    /\ Exact(firstAddress(result.ipObj).address)
    /\ Exact(lastAddress(result.ipObj).address)
    /\ Exact(length(result.ipObj))
    /\ Exact(prefixToMask(result.ipObj.prefixLength, totalBits(result.ipObj.family)))
    /\ Exact(IPv4nat64Object(result.ipObj, nat64PrefixObjOf(nat64PrefixInput)).address)
    /\ Exact(IPv6nat64Object(result.ipObj, nat64PrefixObjOf(nat64PrefixInput)).address)

\* 0 <= value < 2^totalBits
ValueInRange(a) ==
  ~IsNeg(a.address) /\ FitsLimbs(a.address, totalBits(a.family) \div 16)

\* 0 <= prefixLength <= totalBits
PrefixInRange(a) == a.prefixLength \in 0..totalBits(a.family)

\* C1: for every address the parser returns, with any prefix length it
\* accepts, network value <= address value <= broadcast value.
C1_Ordering ==
  HasResult =>
    /\ BigLeq(networkAddress(result.ipObj).address, result.ipObj.address)
    /\ BigLeq(result.ipObj.address, broadcastAddress(result.ipObj).address)

\* C1: an address is returned for the literal -1.0.0.0, with the value -2^24
C1_NegativeAddress ==
  /\ HasResult
  /\ input = "-1.0.0.0/24"
  /\ IsNeg(result.ipObj.address)
  /\ ~IsNeg(networkAddress(result.ipObj).address)

\* 2^e as a BigInt, for 0 <= e < 16 * NLimbs: one bit set, in limb e \div 16
PowerOfTwo(e) == [i \in Limbs |-> IF i = (e \div 16) + 1 THEN Pow(2, e % 16) ELSE 0]

\* C2: for every address with a prefix length p in 0..totalBits the block
\* length is exactly 2^(totalBits - p), nothing cut off: 2^32 for IPv4 /0,
\* 2^128 for IPv6 /0, 256 for IPv4 /24, 2^64 for IPv6 /64, 1 for /totalBits.
C2_BlockLength ==
  HasResult /\ PrefixInRange(result.ipObj) =>
    LET ip == result.ipObj
        tb == totalBits(ip.family)
        p == ip.prefixLength
    IN  /\ length(ip) = PowerOfTwo(tb - p)
        /\ p = tb => result.totalIPs = "1"
        /\ ip.family = "IPv4" /\ p = 24 => result.totalIPs = "256"
        /\ ip.family = "IPv4" /\ p = 0 => result.totalIPs = "4294967296"
        /\ ip.family = "IPv6" /\ p = 64 => result.totalIPs = "18446744073709551616"
        /\ ip.family = "IPv6" /\ p = 0
             => result.totalIPs = "340282366920938463463374607431768211456"

\* C2: the whole IPv6 space, ::/0, has been described: 2^128 addresses
C2_WholeSpace ==
  /\ HasResult
  /\ result.ipObj.family = "IPv6"
  /\ result.ipObj.prefixLength = 0
  /\ length(result.ipObj)[NLimbs] = 1
  /\ result.totalIPs = "340282366920938463463374607431768211456"

\* C3: with prefixLength = totalBits (IPv4 /32, IPv6 /128) the network, the
\* broadcast, the first and the last usable address all have the value of
\* the address itself, and the block length is 1.
C3_HostRoute ==
  HasResult /\ result.ipObj.prefixLength = totalBits(result.ipObj.family) =>
    /\ networkAddress(result.ipObj).address = result.ipObj.address
    /\ broadcastAddress(result.ipObj).address = result.ipObj.address
    /\ firstAddress(result.ipObj).address = result.ipObj.address
    /\ lastAddress(result.ipObj).address = result.ipObj.address
    /\ length(result.ipObj) = BigOne

\* C3: the host route 256.1.1.1/32 is returned, with a value of 33 bits
\* that its network address does not keep
C3_WideHostRoute ==
  /\ HasResult
  /\ input = "256.1.1.1/32"
  /\ result.ipObj.prefixLength = 32
  /\ result.address = "0.1.1.1/32"
  /\ networkAddress(result.ipObj).address # result.ipObj.address

\* C4: every IPv4 value in [0, 2^32) and every IPv6 address and prefix of
\* the 128-bit space gets the label of a table row, never "Unknown".
C4_TypeTotal ==
  HasResult /\ ValueInRange(result.ipObj) /\ PrefixInRange(result.ipObj) =>
    result.type # "Unknown"

\* C4: 240.0.0.1, above every row of IPv4.TYPE_LIST but the broadcast row,
\* is described as "Unknown"
C4_UnknownType ==
  /\ HasResult
  /\ input = "240.0.0.1/24"
  /\ ValueInRange(result.ipObj)
  /\ result.type = "Unknown"

\* the text typed into the address field, as calculate reads it: the
\* literal before the first '/', and what follows that '/'
InputParts == split(trim(input), "/")

InputLiteral == InputParts[1]

InputPrefix == IF Len(InputParts) >= 2 THEN InputParts[2] ELSE ""

\* every character of s is one of the characters of digits
MadeOf(s, digits) ==
  \A i \in 1..Len(s) : \E d \in 1..Len(digits) : CharAt(s, i) = CharAt(digits, d)

\* s is a base-10 integer: one or more decimal digits
IsDecimal(s) == Len(s) >= 1 /\ MadeOf(s, "0123456789")

RECURSIVE DecimalValue(_)
DecimalValue(s) ==
  IF s = "" THEN 0
  ELSE 10 * DecimalValue(SubSeq(s, 1, Len(s) - 1))
       + (CHOOSE d \in 0..9 : CharAt("0123456789", d + 1) = CharAt(s, Len(s)))

\* s is a base-10 integer in [0, max]
IsDecimalUpTo(s, max) == IsDecimal(s) /\ Len(s) <= 6 /\ DecimalValue(s) <= max

\* C5: for every input <literal>/<p> where p is not a base-10 integer in
\* [0, totalBits] (32 for an IPv4 literal, 128 for an IPv6 literal), the
\* parser returns an error and constructs no address.
C5_PrefixValidation ==
  /\ Calculated
  /\ InputPrefix # ""
  /\ ~IsDecimalUpTo(InputPrefix, IF includes(InputLiteral, ":") THEN 128 ELSE 32)
  => result = Null /\ error # ""

\* C5: 10.0.0.1/33 is accepted, and described with the prefix length 33
C5_PrefixAccepted ==
  /\ HasResult
  /\ input = "10.0.0.1/33"
  /\ error = ""
  /\ result.ipObj.prefixLength = 33
  /\ result.address = "10.0.0.1/33"

\* exactly four decimal octets, each in 0..255, separated by '.'
ValidIPv4Literal(ip) ==
  LET octets == split(ip, ".")
  IN  Len(octets) = 4 /\ \A i \in 1..4 : IsDecimalUpTo(octets[i], 255)

\* C6: an IPv4 literal is accepted only if it is exactly four decimal
\* octets, each in 0..255, separated by '.'; every other one (an octet above
\* 255, fewer or more than four octets, an empty octet, a token that is not
\* decimal) yields an error instead of an address.
C6_IPv4Validation ==
  /\ Calculated
  /\ ~includes(InputLiteral, ":")
  /\ includes(InputLiteral, ".")
  /\ ~ValidIPv4Literal(InputLiteral)
  => result = Null /\ error # ""

\* C6: 256.1.1.1 is accepted, with the value 2^32 + 0x010101
C6_OctetAccepted ==
  /\ HasResult
  /\ input = "256.1.1.1"
  /\ error = ""
  /\ result.intId = "4295033089"
  /\ result.address = "0.1.1.1/24"

\* 1 to 4 hexadecimal digits
IsHextet(g) == Len(g) \in 1..4 /\ MadeOf(g, "0123456789abcdefABCDEF")

\* at most one '::', and every group between the colons a hextet
ValidIPv6Groups(ip) ==
  LET parts == split(ip, "::")
  IN  /\ Len(parts) <= 2
      /\ \A k \in 1..Len(parts) :
           parts[k] = ""
           \/ LET groups == split(parts[k], ":")
              IN  \A i \in 1..Len(groups) : IsHextet(groups[i])

\* C7: the parser returns an error, and no address, for every IPv6 literal
\* with more than one '::' or with a group that is not 1 to 4 hexadecimal
\* digits.
C7_IPv6Validation ==
  /\ Calculated
  /\ includes(InputLiteral, ":")
  /\ ~ValidIPv6Groups(InputLiteral)
  => result = Null /\ error # ""

\* C7: 1::2::3 is accepted, and read as 1::2
C7_SecondRunAccepted ==
  /\ HasResult
  /\ input = "1::2::3"
  /\ error = ""
  /\ result.address = "1:0:0:0:0:0:0:2/64"

\* the address record keeps the data model: the value and the prefix length
\* are both in range
InRange(a) == ValueInRange(a) /\ PrefixInRange(a)

\* the NAT64 prefix object of the calculation
UsedNat64Prefix == nat64PrefixObjOf(nat64PrefixInput)

\* C8: every address the parser returns, and every address made from it
\* (network, broadcast, first and last usable address, the NAT64 synthesis
\* of an IPv4 address under any given prefix, the NAT64 extraction from an
\* IPv6 address) has 0 <= value < 2^totalBits and
\* 0 <= prefixLength <= totalBits.
C8_DataModel ==
  HasResult =>
    /\ InRange(result.ipObj)
    /\ InRange(networkAddress(result.ipObj))
    /\ InRange(broadcastAddress(result.ipObj))
    /\ InRange(firstAddress(result.ipObj))
    /\ InRange(lastAddress(result.ipObj))
    /\ result.ipObj.family = "IPv4"
         => InRange(IPv4nat64Object(result.ipObj, UsedNat64Prefix))
    /\ result.ipObj.family = "IPv6" /\ result.nat64 # "Not applicable"
         => InRange(IPv6nat64Object(result.ipObj, UsedNat64Prefix))

\* C8: an IPv4 address and an IPv6 prefix, both in range, whose NAT64
\* synthesis has a value of 2^128 or more
C8_SynthesisTooWide ==
  /\ HasResult
  /\ input = "255.255.255.255/32"
  /\ nat64PrefixInput = "ffff:ffff:ffff:ffff:ffff:ffff:ffff:ffff/128"
  /\ InRange(result.ipObj)
  /\ InRange(UsedNat64Prefix)
  /\ IPv4nat64Object(result.ipObj, UsedNat64Prefix).address[NLimbs] = 1
  /\ ~ValueInRange(IPv4nat64Object(result.ipObj, UsedNat64Prefix))

\* the longest run of "0" groups that starts at group i of the hextets h
ZeroRun(h, i) ==
  Max({n \in 0..(Len(h) + 1 - i) : \A k \in i..(i + n - 1) : h[k] = "0"})

\* the hextets with the first of their longest runs of "0" groups
\* collapsed to '::'
Collapsed(h) ==
  LET best == Max({ZeroRun(h, i) : i \in 1..Len(h)})
      start == Min({i \in 1..Len(h) : ZeroRun(h, i) = best})
  IN  IF best = 0 THEN join(h, ":")
      ELSE join(SubSeq(h, 1, start - 1), ":") \o "::"
           \o join(SubSeq(h, start + best, Len(h)), ":")

\* the compacted form of an IPv6 address in range: its eight hextets
\* without leading zeros, the longest run of zero groups collapsed
Compacted(a) == Collapsed(split(IPv6toString(a), ":"))

\* C9: the strings of an IPv6 address in the report (address, network,
\* broadcast, ranges) are the compacted form; describing 2001:db8::1/64
\* reports the network 2001:db8::/64.
C9_CompactReport ==
  HasResult /\ result.ipObj.family = "IPv6" /\ InRange(result.ipObj) =>
    LET ip == result.ipObj
        p == "/" \o PrefixToString(ip.prefixLength)
    IN  /\ result.address = Compacted(ip) \o p
        /\ result.network = Compacted(networkAddress(ip)) \o p
        /\ result.broadcast = Compacted(broadcastAddress(ip)) \o p
        /\ result.networkRange = Compacted(networkAddress(ip)) \o " - "
                                 \o Compacted(broadcastAddress(ip))
        /\ result.hostRange = Compacted(firstAddress(ip)) \o " - "
                              \o Compacted(lastAddress(ip))
        /\ input = "2001:db8::1/64" => result.network = "2001:db8::/64"

\* C9: the network of 2001:db8::1/64 is reported with all eight hextets
C9_ExpandedNetwork ==
  /\ HasResult
  /\ input = "2001:db8::1/64"
  /\ Compacted(networkAddress(result.ipObj)) = "2001:db8::"
  /\ result.network = "2001:db8:0:0:0:0:0:0/64"

\* C10: the NAT64 translation of an IPv4 address a under an IPv6 prefix is
\* the text of the IPv6 address with the value prefix.value + a.value; for
\* 192.0.2.1/32 under 64:ff9b::/96 it is exactly 64:ff9b::c000:201.
C10_Nat64Synthesis ==
  /\ HasResult
  /\ result.ipObj.family = "IPv4"
  /\ InRange(result.ipObj)
  /\ UsedNat64Prefix.family = "IPv6"
  /\ InRange(UsedNat64Prefix)
  /\ ValueInRange(IPv4nat64Object(result.ipObj, UsedNat64Prefix))
  => /\ result.nat64 = Compacted(Address("IPv6",
                                         BigAdd(UsedNat64Prefix.address,
                                                result.ipObj.address),
                                         UsedNat64Prefix.prefixLength))
     /\ input = "192.0.2.1/32" /\ nat64PrefixInput = "64:ff9b::/96"
          => result.nat64 = "64:ff9b::c000:201"

\* C10: 192.0.2.1/32 under 64:ff9b::/96 is translated to the eight
\* hextets of the sum, followed by the prefix length
C10_ExpandedSynthesis ==
  /\ HasResult
  /\ input = "192.0.2.1/32"
  /\ nat64PrefixInput = "64:ff9b::/96"
  /\ IPv4nat64Object(result.ipObj, UsedNat64Prefix).address
       = IPv6toInteger("64:ff9b::c000:201").val
  /\ result.nat64 = "64:ff9b:0:0:0:0:c000:201/96"

\* the synthesis of the report parsed as an address, and what IPv6.nat64
\* extracts from it under the prefix of the calculation
ExtractedBack ==
  Only({IF back.err # "" THEN [err |-> back.err, family |-> "", nat64 |-> ""]
        ELSE [err |-> "", family |-> back.obj.family,
              nat64 |-> nat64(back.obj, UsedNat64Prefix)] :
          back \in {parseIp(result.nat64)}})

\* C11: for every IPv4 address a with 0 <= a.value < 2^32 and the default
\* prefix 64:ff9b::/96, the NAT64 synthesis of a parses as an IPv6 address,
\* and IPv6 nat64 extraction from it with the same prefix yields the dotted
\* decimal address of a, never "Not applicable".
C11_Nat64RoundTrip ==
  /\ HasResult
  /\ result.ipObj.family = "IPv4"
  /\ ValueInRange(result.ipObj)
  /\ UsedNat64Prefix = nat64Prefix
  => /\ ExtractedBack.err = ""
     /\ ExtractedBack.family = "IPv6"
     /\ ExtractedBack.nat64 # "Not applicable"
     /\ ExtractedBack.nat64 = IPv4toString(result.ipObj)

\* C11: 0.0.0.0, whose synthesis is the prefix address itself, comes back
\* from the extraction as 0.0.0.0
C11_LowestComesBack ==
  /\ HasResult
  /\ input = "0.0.0.0/32"
  /\ UsedNat64Prefix = nat64Prefix
  /\ result.nat64 = "64:ff9b:0:0:0:0:0:0/96"
  /\ ExtractedBack.family = "IPv6"
  /\ ExtractedBack.nat64 = "0.0.0.0"

\* the dotted decimal form of the low 32 bits of d, read off its two lowest
\* limbs
LowDotted(d) ==
  NumberToString(d[2] \div 256) \o "." \o NumberToString(d[2] % 256) \o "."
  \o NumberToString(d[1] \div 256) \o "." \o NumberToString(d[1] % 256)

\* C12: for every IPv6 address x and prefix P, IPv6 nat64 returns the
\* normal result value "Not applicable" (the calculation does not fail)
\* exactly when x.value < P.value or x.value > broadcastAddress(P).value;
\* otherwise it returns the dotted decimal form of the low 32 bits of
\* x.value - P.value.
C12_Nat64Extraction ==
  HasResult /\ result.ipObj.family = "IPv6" =>
    LET x == result.ipObj.address
        P == UsedNat64Prefix
        outside == BigLess(x, P.address) \/ BigLess(broadcastAddress(P).address, x)
    IN  /\ error = ""
        /\ result.nat64 = "Not applicable" <=> outside
        /\ ~outside => result.nat64 = LowDotted(BigSub(x, P.address))

\* C12: 2001:db8::1 under the prefix 2001:db8::1/96, whose own low bits
\* are not zero, is extracted as 0.0.0.0; under 64:ff9b::/96 it would be
\* outside
C12_OddPrefixExtracted ==
  /\ HasResult
  /\ input = "2001:db8::1/64"
  /\ nat64PrefixInput = "2001:db8::1/96"
  /\ result.ipObj.address = UsedNat64Prefix.address
  /\ result.nat64 = "0.0.0.0"
  /\ IPv6nat64(result.ipObj, nat64Prefix) = "Not applicable"

\* the number of groups written in an IPv6 literal
GroupCount(ip) ==
  LET parts == split(ip, "::")
      n(k) == IF k > Len(parts) \/ parts[k] = "" THEN 0 ELSE Len(split(parts[k], ":"))
  IN  n(1) + n(2)

\* at most eight hextets, with at most one '::'
ValidIPv6Literal(ip) == ValidIPv6Groups(ip) /\ GroupCount(ip) <= 8

\* a literal of the grammar of its family
ValidLiteral(ip) ==
  IF includes(ip, ":") THEN ValidIPv6Literal(ip) ELSE ValidIPv4Literal(ip)

\* the text toString gives for the address of the report, parsed again and
\* rendered again
Rendered ==
  Only({Only({IF again.err # "" THEN [err |-> again.err, once |-> once, twice |-> ""]
              ELSE [err |-> "", once |-> once, twice |-> toString(again.obj)] :
                again \in {parseIp(once)}}) :
          once \in {toString(result.ipObj)}})

\* C13: for every valid IPv4 or IPv6 literal s, the text toString gives for
\* parse(s) parses again, and toString of that address is the same text:
\* toString(parse(toString(parse(s)))) = toString(parse(s)).
C13_StringRoundTrip ==
  HasResult /\ ValidLiteral(InputLiteral) =>
    /\ Rendered.err = ""
    /\ Rendered.twice = Rendered.once

\* C13: 2001:db8::1 is rendered with its eight hextets, a text that is
\* not the literal typed and that renders as itself
C13_ExpandedRendersItself ==
  /\ HasResult
  /\ input = "2001:db8::1"
  /\ ValidLiteral(InputLiteral)
  /\ Rendered.once = "2001:db8:0:0:0:0:0:1"
  /\ Rendered.twice = "2001:db8:0:0:0:0:0:1"

\* the candidate of the subnet check as handleCheckIp parses it, and the
\* address its literal alone stands for, whatever follows the '/'
Candidate ==
  Only({[err |-> c.err, family |-> c.obj.family, bare |-> bare.obj.address] :
          c \in {parseIp(trim(checkIp))},
          bare \in {parseIp(split(trim(checkIp), "/")[1])}})

\* the subnet check has answered
Checked == HasResult /\ checkResult # ""

\* C14: for every subnet S and candidate c of the same family, the check
\* answers "in the subnet" exactly when networkAddress(S).value <= c.value
\* <= broadcastAddress(S).value, where c.value is the value of the
\* candidate's literal, whatever its prefix length; 10.5.5.5 is in
\* 10.0.0.0/8, 11.0.0.0 is not.
C14_SubnetMembership ==
  Checked /\ Candidate.err = "" /\ Candidate.family = result.ipObj.family =>
    /\ checkResult \in {"is in the subnet", "is not in the subnet"}
    /\ checkResult = "is in the subnet"
         <=> /\ BigLeq(networkAddress(result.ipObj).address, Candidate.bare)
             /\ BigLeq(Candidate.bare, broadcastAddress(result.ipObj).address)
    /\ input = "10.0.0.0/8" /\ checkIp \in {"10.5.5.5", "10.5.5.5/32", "10.5.5.5/0"}
         => checkResult = "is in the subnet"
    /\ input = "10.0.0.0/8" /\ checkIp \in {"11.0.0.0/32", "11.0.0.0/0"}
         => checkResult = "is not in the subnet"

\* C14: the network address of 10.0.0.0/8 itself, given with a prefix
\* length of its own, is in the subnet
C14_NetworkAddressIsIn ==
  /\ Checked
  /\ input = "10.0.0.0/8"
  /\ checkIp = "10.0.0.0/8"
  /\ Candidate.bare = networkAddress(result.ipObj).address
  /\ checkResult = "is in the subnet"

\* C15: for every subnet of one family and candidate of the other family
\* the check answers neither "in the subnet" nor "not in the subnet" but
\* with the version mismatch, and the report it was asked about is still
\* the one calculate made.
C15_FamilyMismatch ==
  Checked /\ Candidate.err = "" /\ Candidate.family # result.ipObj.family =>
    /\ checkResult \notin {"is in the subnet", "is not in the subnet"}
    /\ checkResult = "IP version mismatch"
    /\ result = calculate(Closure(input, nat64PrefixInput)).result

\* C15: the IPv4 candidate 10.5.5.5, whose value lies between the ends of
\* the IPv6 subnet ::/0, is answered with the mismatch
C15_MismatchAnswered ==
  /\ Checked
  /\ input = "::/0"
  /\ checkIp = "10.5.5.5"
  /\ Candidate.family = "IPv4"
  /\ result.ipObj.family = "IPv6"
  /\ BigLeq(networkAddress(result.ipObj).address, Candidate.bare)
  /\ BigLeq(Candidate.bare, broadcastAddress(result.ipObj).address)
  /\ checkResult = "IP version mismatch"

\* the label the IPv4 table gives a value, read off the first two octets
\* of a value in [0, 2^32): the rows in their declared order
LabelOfOctets(a) ==
  LET o1 == a[2] \div 256
      o2 == a[2] % 256
  IN  IF IsNeg(a) \/ ~FitsLimbs(a, 2) THEN "Unknown"
      ELSE IF o1 = 10 THEN "Private"
      ELSE IF o1 = 172 /\ o2 \in 16..31 THEN "Private"
      ELSE IF o1 = 192 /\ o2 = 168 THEN "Private"
      ELSE IF o1 = 127 THEN "Loopback"
      ELSE IF o1 = 169 /\ o2 = 254 THEN "Link-local"
      ELSE IF o1 \in 224..239 THEN "Multicast"
      ELSE IF a[2] = 65535 /\ a[1] = 65535 THEN "Broadcast"
      ELSE IF o1 = 100 /\ o2 \in 64..127 THEN "Shared Address Space"
      ELSE IF o1 <= 223 THEN "Global Unicast"
      ELSE "Unknown"

\* C16: the type of an IPv4 address is the label of the first row, in
\* the declared order of the table, whose range contains the bare address
\* value, whatever the prefix length: addresses of 10/8, 172.16/12 and
\* 192.168/16 are Private, those of 100.64/10 are Shared Address Space
\* rather than Global Unicast, and 192.168.1.10/24 is Private.
C16_IPv4Classification ==
  HasResult /\ result.ipObj.family = "IPv4" =>
    /\ result.type = LabelOfOctets(result.ipObj.address)
    /\ result.type = FirstRow(IPv4_TYPE_LIST, result.ipObj.address, result.ipObj.address)
    /\ InputLiteral \in {"10.0.0.1", "10.5.5.5", "10.255.255.255", "172.16.0.1",
                          "192.168.1.0", "192.168.1.10"}
         => result.type = "Private"
    /\ InputLiteral = "100.64.0.1" => result.type = "Shared Address Space"
    /\ InputLiteral = "172.32.0.1" => result.type = "Global Unicast"

\* C16: 100.64.0.1/0, which the Global Unicast row contains as well, and
\* whose network 0.0.0.0/0 reaches outside every row, is Shared Address
\* Space
C16_SharedBeforeGlobal ==
  /\ HasResult
  /\ input = "100.64.0.1/0"
  /\ BigLeq(IPv4_TYPE_LIST[9][2], result.ipObj.address)
  /\ BigLeq(result.ipObj.address, IPv4_TYPE_LIST[9][3])
  /\ IPv4_TYPE_LIST[9][1] = "Global Unicast"
  /\ result.network = "0.0.0.0/0"
  /\ result.type = "Shared Address Space"

\* the value of eight 16-bit groups, the highest first
OfGroups(h) == [i \in Limbs |-> IF i <= 8 THEN h[9 - i] ELSE 0]

\* the block whose highest group runs from lo to hi
TopRange(label, lo, hi) ==
  <<label, OfGroups(<<lo, 0, 0, 0, 0, 0, 0, 0>>),
    OfGroups(<<hi, 65535, 65535, 65535, 65535, 65535, 65535, 65535>>)>>

\* the ranges of the IPv6 table as numbers: 64:ff9b::/96, 2000::/3,
\* fe80::/10, fc00::/7, ff00::/8, ::1, ::, ::ffff:0:0/96, 4000:: upward
IPv6Ranges ==
  << <<"NAT64", OfGroups(<<100, 65435, 0, 0, 0, 0, 0, 0>>),
       OfGroups(<<100, 65435, 0, 0, 0, 0, 65535, 65535>>)>>,
     TopRange("Global Unicast", 8192, 16383),
     TopRange("Link-local", 65152, 65215),
     TopRange("Unique Local", 64512, 65023),
     TopRange("Multicast", 65280, 65535),
     <<"Loopback", BigOne, BigOne>>,
     <<"Reserved", BigZero, BigZero>>,
     <<"Reserved", OfGroups(<<0, 0, 0, 0, 0, 65535, 0, 0>>),
       OfGroups(<<0, 0, 0, 0, 0, 65535, 65535, 65535>>)>>,
     TopRange("Reserved", 16384, 65535) >>

\* the address a lies in the range k
InRow(k, a) == BigLeq(IPv6Ranges[k][2], a) /\ BigLeq(a, IPv6Ranges[k][3])

\* the range k contains both lo and hi
LiesIn(k, lo, hi) == InRow(k, lo) /\ InRow(k, hi)

\* the label of the first range that contains both lo and hi
LabelOfRange(lo, hi) ==
  IF \A k \in 1..9 : ~LiesIn(k, lo, hi) THEN "Unknown"
  ELSE IPv6Ranges[CHOOSE k \in 1..9 :
                    LiesIn(k, lo, hi) /\ \A j \in 1..(k - 1) : ~LiesIn(j, lo, hi)][1]

C18_FamilyDispatch ==
  Calculated =>
    /\ result # Null /\ includes(InputLiteral, ":") => result.ipObj.family = "IPv6"
    /\ result # Null /\ ~includes(InputLiteral, ":") => result.ipObj.family = "IPv4"
    /\ result # Null => includes(InputLiteral, ":") \/ includes(InputLiteral, ".")
    /\ ~includes(InputLiteral, ":") /\ ~includes(InputLiteral, ".")
         => result = Null /\ error = "Invalid IP address format"
    /\ input = "::ffff:1.2.3.4" => result # Null /\ result.ipObj.family = "IPv6"
    /\ input = "192.168.1.10" => result # Null /\ result.ipObj.family = "IPv4"

\* C18: the empty input is calculated as well, and gives the error and no
\* address
C18_EmptyInputRefused ==
  /\ Calculated
  /\ input = ""
  /\ InputLiteral = ""
  /\ result = Null
  /\ error = "Invalid IP address format"

\* C19: the input is split at its first '/'; with no '/' the address has
\* the prefix length 24 when its literal contains '.' and 64 when it
\* contains ':', and with a prefix length written after the '/' the
\* address has exactly that prefix length, 0 included.
C19_DefaultPrefix ==
  HasResult =>
    /\ ~includes(trim(input), "/")
         => result.ipObj.prefixLength = IF includes(InputLiteral, ":") THEN 64 ELSE 24
    /\ IsDecimal(InputPrefix) /\ Len(InputPrefix) <= 6
         => result.ipObj.prefixLength = DecimalValue(InputPrefix)
    /\ input = "192.168.1.10" => result.address = "192.168.1.10/24"
    /\ input = "2001:db8::1" => result.address = "2001:db8:0:0:0:0:0:1/64"
    /\ input = "10.0.0.1/8/16"
         => InputLiteral = "10.0.0.1" /\ result.ipObj.prefixLength = 8

\* C19: 192.168.1.10/0 has the prefix length 0, not the default
C19_ZeroPrefixKept ==
  /\ HasResult
  /\ input = "192.168.1.10/0"
  /\ InputPrefix = "0"
  /\ result.ipObj.prefixLength = 0
  /\ result.address = "192.168.1.10/0"

\* the hexadecimal digit of bits 4k .. 4k+3 of a
Nibble(a, k) == CharAt(HexLower, ((a[k \div 4 + 1] \div Pow(16, k % 4)) % 16) + 1)

\* the 32 nibbles of a 128-bit value, the lowest first, joined by '.'
NibblesReversed(a) == join([k \in 1..32 |-> Nibble(a, k - 1)], ".")

\* the four octets of a 32-bit value, the lowest first, joined by '.'
OctetsReversed(a) ==
  NumberToString(a[1] % 256) \o "." \o NumberToString(a[1] \div 256) \o "."
  \o NumberToString(a[2] % 256) \o "." \o NumberToString(a[2] \div 256)

\* the last n characters of s
LastChars(s, n) == SubSeq(s, Len(s) - n + 1, Len(s))

\* C20: for every IPv4 address arpaFormat is its four octets in reverse
\* order joined by '.' and followed by ".in-addr.arpa"; for every IPv6
\* address it is exactly the 32 nibbles of the zero-padded 128-bit
\* hexadecimal form in reverse order joined by '.' and followed by
\* ".ip6.arpa" (2001:db8::1 ends with ".8.b.d.0.1.0.0.2.ip6.arpa"); the
\* prefix length does not affect it.
C20_ArpaFormat ==
  HasResult =>
    /\ result.ipObj.family = "IPv4"
         => result.arpa = OctetsReversed(result.ipObj.address) \o ".in-addr.arpa"
    /\ result.ipObj.family = "IPv6"
         => /\ result.arpa = NibblesReversed(result.ipObj.address) \o ".ip6.arpa"
            /\ Len(result.arpa) = 63 + Len(".ip6.arpa")
    /\ InputLiteral = "2001:db8::1"
         => LastChars(result.arpa, 25) = ".8.b.d.0.1.0.0.2.ip6.arpa"

\* C20: the address returned for 12345::1 has 33 nibbles in its reverse
\* DNS name
C20_ExtraNibble ==
  /\ HasResult
  /\ input = "12345::1/64"
  /\ result.ipObj.address[NLimbs] = 1
  /\ Len(result.arpa) = 65 + Len(".ip6.arpa")
  /\ LastChars(result.arpa, 19) = ".5.4.3.2.1.ip6.arpa"

\* the radices of the encodings the report shows
OfferedRadices == {Encodings(result)[i].radix : i \in 1..Len(Encodings(result))}

\* C21: the report for an address offers the encodings Decimal, Hex,
\* Binary, Base32, Base58 and Base64 of the address integer.
C21_OutputEncodings ==
  HasResult =>
    \A radix \in {10, 16, 2, 32, 58, 64} :
      \E i \in 1..Len(Encodings(result)) :
        /\ Encodings(result)[i].radix = radix
        /\ Encodings(result)[i].value # ""

\* C21: the report of 192.168.1.10/24 shows the address integer in the
\* radices 2, 10, 16, 32, 64 and 85, none of them 58
C21_Base85Offered ==
  /\ HasResult
  /\ input = "192.168.1.10/24"
  /\ OfferedRadices = {2, 10, 16, 32, 64, 85}
  /\ result.intId = "3232235786"
  /\ result.base85Id = encodeBigIntToBase(result.ipObj.address, BASE85_ALPHABET)
  /\ Len(result.base85Id) = 5

\* C22: for every IPv6 address compact() renders the eight hextets with
\* leading zeros stripped and collapses exactly one run of zero groups, the
\* longest one (the first on ties), to '::'; every other group, zero groups
\* outside that run included, is kept as written, and a run at the start
\* or over the whole address yields '::' as well ('::1', '::').
C22_Compact ==
  HasResult /\ result.ipObj.family = "IPv6" =>
    /\ compact(result.ipObj) = Compacted(result.ipObj)
    /\ InputLiteral = "::1" => compact(result.ipObj) = "::1"
    /\ InputLiteral = "::" => compact(result.ipObj) = "::"

\* C22: the compact form of ::1 is ':1', with one colon
C22_LeadingRunLost ==
  /\ HasResult
  /\ input = "::1/128"
  /\ IPv6toString(result.ipObj) = "0:0:0:0:0:0:0:1"
  /\ Compacted(result.ipObj) = "::1"
  /\ compact(result.ipObj) = ":1"

\* C23: for every address with prefixLength < totalBits the first usable
\* address has the value of the network address plus 1 and the last usable
\* address that of the broadcast address minus 1, both with the prefix
\* length of the address; 192.168.1.10/24 gives 192.168.1.1 and
\* 192.168.1.254.
C23_UsableRange ==
  HasResult /\ result.ipObj.prefixLength < totalBits(result.ipObj.family) =>
    LET ip == result.ipObj
    IN  /\ BigSub(firstAddress(ip).address, networkAddress(ip).address) = BigOne
        /\ BigSub(broadcastAddress(ip).address, lastAddress(ip).address) = BigOne
        /\ firstAddress(ip).prefixLength = ip.prefixLength
        /\ lastAddress(ip).prefixLength = ip.prefixLength
        /\ firstAddress(ip).family = ip.family
        /\ lastAddress(ip).family = ip.family
        /\ result.hostRange = toString(firstAddress(ip)) \o " - " \o toString(lastAddress(ip))
        /\ input = "192.168.1.10/24" => result.hostRange = "192.168.1.1 - 192.168.1.254"

\* C23: the usable range of 192.168.1.10/24, inside its network range
C23_HostsOfSlash24 ==
  /\ HasResult
  /\ input = "192.168.1.10/24"
  /\ result.ipObj.prefixLength < totalBits(result.ipObj.family)
  /\ result.networkRange = "192.168.1.0 - 192.168.1.255"
  /\ result.hostRange = "192.168.1.1 - 192.168.1.254"

\* C24: for every parsed address and every prefix length in [0, totalBits]
\* the first usable address is not above the last usable address, so the
\* host range of the report is never inverted (IPv4 /31 and IPv6 /127
\* included).
C24_UsableRangeOrdered ==
  HasResult /\ PrefixInRange(result.ipObj) =>
    BigLeq(firstAddress(result.ipObj).address, lastAddress(result.ipObj).address)

\* C24: the host range of 192.168.1.10/31 runs from the broadcast address
\* down to the network address
C24_InvertedSlash31 ==
  /\ HasResult
  /\ input = "192.168.1.10/31"
  /\ InRange(result.ipObj)
  /\ result.networkRange = "192.168.1.10 - 192.168.1.11"
  /\ result.hostRange = "192.168.1.11 - 192.168.1.10"
  /\ BigLess(lastAddress(result.ipObj).address, firstAddress(result.ipObj).address)

\* C25: for every address with a value in [0, 2^totalBits) and a prefix
\* length in [0, totalBits], broadcast - network + 1 is the block length,
\* the network value is a multiple of the block length, and the network
\* and broadcast addresses are fixed points: network of network = network,
\* broadcast of broadcast = broadcast, network of broadcast = network.
C25_BlockGeometry ==
  HasResult /\ InRange(result.ipObj) =>
    LET ip == result.ipObj
        network == networkAddress(ip)
        broadcast == broadcastAddress(ip)
    IN  /\ BigAdd(BigSub(broadcast.address, network.address), BigOne) = length(ip)
        /\ BigAnd(network.address, BigSub(length(ip), BigOne)) = BigZero
        /\ networkAddress(network) = network
        /\ broadcastAddress(broadcast) = broadcast
        /\ networkAddress(broadcast) = network

\* C25: 203.0.113.5/12, whose network 203.0.0.0 and broadcast
\* 203.15.255.255 are 2^20 - 1 apart
C25_BlockOfSlash12 ==
  /\ HasResult
  /\ input = "203.0.113.5/12"
  /\ InRange(result.ipObj)
  /\ result.networkRange = "203.0.0.0 - 203.15.255.255"
  /\ result.totalIPs = "1048576"
  /\ networkAddress(broadcastAddress(result.ipObj)) = networkAddress(result.ipObj)

\* the value c has the network part of the subnet S
MaskTest(S, c) ==
  BigAnd(c, prefixToMask(S.prefixLength, totalBits(S.family))) = networkAddress(S).address

\* the address of S, and the addresses derived from it
OwnAddresses(S) ==
  {S.address, networkAddress(S).address, broadcastAddress(S).address,
   firstAddress(S).address, lastAddress(S).address}

\* C26: for every subnet S and candidate c of the same family, both with
\* values in range, the check answers "in the subnet" exactly when
\* (c.value AND prefixToMask(S.prefixLength)) = networkAddress(S).value;
\* the address of S, its network, broadcast, first and last usable
\* addresses pass both tests and are answered as in the subnet.
C26_MembershipByMask ==
  HasResult /\ ValueInRange(result.ipObj) =>
    /\ \A c \in OwnAddresses(result.ipObj) :
         /\ MaskTest(result.ipObj, c)
         /\ BigLeq(networkAddress(result.ipObj).address, c)
         /\ BigLeq(c, broadcastAddress(result.ipObj).address)
    /\ /\ checkResult # ""
       /\ Candidate.err = ""
       /\ Candidate.family = result.ipObj.family
       /\ ValueInRange(Address(Candidate.family, Candidate.bare, 0))
       => /\ checkResult = "is in the subnet" <=> MaskTest(result.ipObj, Candidate.bare)
          /\ Candidate.bare \in OwnAddresses(result.ipObj)
               => checkResult = "is in the subnet"

\* C26: 192.168.1.11, the broadcast and the first usable address of
\* 192.168.1.10/31, is answered as in the subnet, and 192.168.1.12, with
\* another network part, has been answered as not in it
C26_BroadcastIsIn ==
  /\ Checked
  /\ input = "192.168.1.10/31"
  /\ checkIp = "192.168.1.11"
  /\ Candidate.bare = broadcastAddress(result.ipObj).address
  /\ Candidate.bare = firstAddress(result.ipObj).address
  /\ MaskTest(result.ipObj, Candidate.bare)
  /\ ~MaskTest(result.ipObj, BigAdd(Candidate.bare, BigOne))
  /\ checkResult = "is in the subnet"

\* the compact form of the address of the report, and what IPv6.toInteger
\* reads from it
CompactedBack ==
  Only({[text |-> c, back |-> IPv6toInteger(c)] : c \in {compact(result.ipObj)}})

\* C27: for every IPv6 address a with a value in [0, 2^128) the string
\* a.compact() is a valid IPv6 literal with at most one '::', and parsing
\* it yields an address with the value of a.
C27_CompactRoundTrip ==
  HasResult /\ result.ipObj.family = "IPv6" /\ ValueInRange(result.ipObj) =>
    /\ includes(CompactedBack.text, ":")
    /\ ValidIPv6Literal(CompactedBack.text)
    /\ Len(split(CompactedBack.text, "::")) <= 2
    /\ CompactedBack.back.err = ""
    /\ CompactedBack.back.val = result.ipObj.address

\* C27: the compact form ':1' of ::1 is read as 0:1:0:0:0:0:0:0
C27_CompactReadElsewhere ==
  /\ HasResult
  /\ input = "::1/128"
  /\ ValueInRange(result.ipObj)
  /\ CompactedBack.text = ":1"
  /\ ~ValidIPv6Literal(CompactedBack.text)
  /\ CompactedBack.back.err = ""
  /\ IPv6toString(Address("IPv6", CompactedBack.back.val, 128)) = "0:1:0:0:0:0:0:0"

\* C28: for every IPv6 prefix P of prefix length 96 given in the NAT64
\* prefix field, the default or another, its low 32 bits zero or not, and
\* every IPv4 address a, IPv6 nat64 extraction with P from the address
\* synthesized from a with P returns the dotted decimal address of a.
C28_Nat64RoundTripAnyPrefix ==
  /\ HasResult
  /\ result.ipObj.family = "IPv4"
  /\ ValueInRange(result.ipObj)
  /\ UsedNat64Prefix.family = "IPv6"
  /\ UsedNat64Prefix.prefixLength = 96
  /\ ValueInRange(UsedNat64Prefix)
  => /\ ExtractedBack.err = ""
     /\ ExtractedBack.family = "IPv6"
     /\ ExtractedBack.nat64 = IPv4toString(result.ipObj)

\* C28: 255.255.255.255 synthesized under 2001:db8::1/96 lies above the
\* broadcast address of that prefix, and nothing is extracted from it
C28_AbovePrefixRange ==
  /\ HasResult
  /\ input = "255.255.255.255/32"
  /\ nat64PrefixInput = "2001:db8::1/96"
  /\ UsedNat64Prefix.prefixLength = 96
  /\ result.nat64 = "2001:db8:0:0:0:1:0:0/96"
  /\ IPv6toString(broadcastAddress(UsedNat64Prefix)) = "2001:db8:0:0:0:0:ffff:ffff"
  /\ ExtractedBack.nat64 = "Not applicable"

\* the NAT64 prefix field as parseIp reads it
Nat64Field ==
  Only({[err |-> p.err, family |-> p.obj.family] : p \in {parseIp(trim(nat64PrefixInput))}})

\* C29: in every calculation the prefix handed to nat64 is an IPv6
\* address; a NAT64 prefix input that is not an IPv6 CIDR, one that parses
\* as an IPv4 address such as 10.0.0.0/8 included, is replaced by the
\* default 64:ff9b::/96 before the translation.
C29_Nat64PrefixFamily ==
  HasResult =>
    /\ UsedNat64Prefix.family = "IPv6"
    /\ Nat64Field.err # "" \/ Nat64Field.family # "IPv6"
         => /\ UsedNat64Prefix = nat64Prefix
            /\ result.nat64 = nat64(result.ipObj, nat64Prefix)

\* C29: with 10.0.0.0/8 in the NAT64 prefix field, 192.0.2.1 is
\* translated by adding the IPv4 value 10.0.0.0, with the prefix length 8
C29_IPv4PrefixUsed ==
  /\ HasResult
  /\ input = "192.0.2.1/32"
  /\ nat64PrefixInput = "10.0.0.0/8"
  /\ Nat64Field.family = "IPv4"
  /\ UsedNat64Prefix.family = "IPv4"
  /\ result.nat64 = "0:0:0:0:0:0:ca00:201/8"
  /\ result.nat64 # nat64(result.ipObj, nat64Prefix)

\* the NAT64 value on display is the translation under the prefix that is
\* in the NAT64 prefix field now
Nat64Fresh ==
  result # Null => result.nat64 = nat64(result.ipObj, nat64PrefixObjOf(nat64PrefixInput))

\* C30: whenever the NAT64 prefix field changes while a result is on
\* display, the NAT64 value of the result is eventually computed again
\* with the new prefix, with no further change of the address field: the
\* value on display never stays derived from a prefix that is no longer
\* the current one.
C30_Nat64Freshness == ~Nat64Fresh ~> Nat64Fresh

\* C30: no timeout is pending, and the translation of 192.0.2.1 on display
\* is the one under 64:ff9b::/96 while the field holds 64:ff9b:1::/96
C30_StaleAtRest ==
  /\ timer = Null
  /\ input = "192.0.2.1/32"
  /\ nat64PrefixInput = "64:ff9b:1::/96"
  /\ result # Null
  /\ result.nat64 = "64:ff9b:0:0:0:0:c000:201/96"
  /\ nat64(result.ipObj, nat64PrefixObjOf(nat64PrefixInput)) = "64:ff9b:1:0:0:0:c000:201/96"
  /\ ~ENABLED Calculate

====
